---- MODULE Spec2Model ----
(***************************************************************************)
(* Model of src/diffusers/hub_utils.py: get_full_repo_name, init_git_repo, *)
(* push_to_hub and create_model_card.  File contents, repository names and *)
(* commit messages are strings, built the way the code builds them.  Every *)
(* call to the hub client, to the pipeline and to the filesystem is an     *)
(* event appended, in program order, to the trace of the call.  The        *)
(* outcomes of the external calls (success, an EnvironmentError, an error  *)
(* of another class, the name returned by whoami, the files a clone or a   *)
(* pull brings) are inputs drawn from small sets.                          *)
(***************************************************************************)
EXTENDS Integers, Sequences, FiniteSets, TLC

VARIABLES args, fs, hasRepo, queue, last

vars == <<args, fs, hasRepo, queue, last>>

----------------------------------------------------------------------------
(* Bounds *)

\* participants have local_rank in -1 .. MaxRank
MaxRank == 1
\* longest repo.command_queue the model lets a handle grow to
MaxQueue == 2

----------------------------------------------------------------------------
(* Values *)

None == "None"
\* use_auth_token=True: the "use the locally cached credential" sentinel
PyTrue == "True"
NoFile == "<absent>"
RepoHandle == "<Repository>"

Ranks == (-1) .. MaxRank
\* slip: `if args.local_rank < -1: return`
IsPrimaryAnyRank(local_rank) == local_rank >= -1
\* args.local_rank in [-1, 0]
IsPrimary(local_rank) == local_rank \in {-1, 0}

Tokens == {None, "hf_explicit"}
StoredToken == "hf_stored"
ModelIds == {None, "foo", "acme/foo"}
OutputDir == "runs/ddpm"
Strategies == {"every_save", "all_checkpoints"}
UserNames == {"alice", "bob", "carol"}
Organizations == {None, "acme", "lab", "hf"}
ShortNames == {"foo", "ddpm", "unet", "vae", "clip"}
CardNames == {"foo", "ddpm"}
CommitMessages == {"End of training", "step 10"}
CommitUrls == {"hub/commit/1"}

NoError == [cls |-> "none", site |-> "none"]
EnvError(site) == [cls |-> "EnvironmentError", site |-> site]
OtherError(site) == [cls |-> "ValueError", site |-> site]
\* what an external call can do: succeed, or raise one of two classes
Outcomes == {"ok", "env", "other"}
Raise(outcome, site) == IF outcome = "env" THEN EnvError(site) ELSE OtherError(site)

----------------------------------------------------------------------------
(* Strings *)

RECURSIVE Contains(_, _)
\* Python `sub in s`
Contains(s, sub) ==
    IF Len(s) < Len(sub) THEN FALSE
    ELSE IF SubSeq(s, 1, Len(sub)) = sub THEN TRUE
    ELSE Contains(SubSeq(s, 2, Len(s)), sub)

StartsWith(s, p) == Len(s) >= Len(p) /\ SubSeq(s, 1, Len(p)) = p
EndsWith(s, p) == Len(s) >= Len(p) /\ SubSeq(s, Len(s) - Len(p) + 1, Len(s)) = p

RECURSIVE IndexOf(_, _, _)
\* position of the first occurrence of sub in s at or after i, 0 when none
IndexOf(s, sub, i) ==
    IF i + Len(sub) - 1 > Len(s) THEN 0
    ELSE IF SubSeq(s, i, i + Len(sub) - 1) = sub THEN i
    ELSE IndexOf(s, sub, i + 1)

RECURSIVE LastSegment(_)
\* s.split("/")[-1]
LastSegment(s) ==
    LET i == IndexOf(s, "/", 1)
    IN IF i = 0 THEN s ELSE LastSegment(SubSeq(s, i + 1, Len(s)))

RECURSIVE StripSlashes(_)
StripSlashes(s) ==
    IF Len(s) > 1 /\ EndsWith(s, "/") THEN StripSlashes(SubSeq(s, 1, Len(s) - 1)) ELSE s

\* Path(p).name
PathName(p) == LastSegment(StripSlashes(p))

----------------------------------------------------------------------------
(* Events of a call, in program order *)

EvGetToken == [op |-> "get_token"]
\* whoami(token), with the "name" field of its answer (None when it raised)
EvWhoami(token, answer) == [op |-> "whoami", token |-> token, answer |-> answer]
\* Repository(output_dir, clone_from=..., use_auth_token=..., [private=...]),
\* with the error it raised (NoError when it returned)
EvBind(clone_from, use_auth_token, private_passed, private, raised) ==
    [op |-> "bind", clone_from |-> clone_from, use_auth_token |-> use_auth_token,
     private_passed |-> private_passed, private |-> private, raised |-> raised]
EvRmtree == [op |-> "rmtree"]
EvPull == [op |-> "pull"]
\* os.path.exists(file), with what the file held at that moment
EvExists(file, content) == [op |-> "exists", file |-> file, content |-> content]
EvWrite(file, content) == [op |-> "write", file |-> file, content |-> content]
EvMakedirs == [op |-> "makedirs"]
EvSave == [op |-> "save_pretrained"]
EvKill(index) == [op |-> "kill", index |-> index]
\* repo.push_to_hub(commit_message=msg, blocking=..., auto_lfs_prune=True):
\* how many queued commands were running and not killed when it was issued,
\* what it returned (None when it raised) and the error it raised
EvPush(msg, blocking, inflight, ret, raised) ==
    [op |-> "push", msg |-> msg, blocking |-> blocking, auto_lfs_prune |-> TRUE,
     inflight |-> inflight, ret |-> ret, raised |-> raised]
EvLogError == [op |-> "log_error"]

\* the result of running one function: what it did, what it returned or
\* raised, and the filesystem and command queue it left
Result(trace, ret, raised, fs1, queue1) ==
    [trace |-> trace, ret |-> ret, raised |-> raised, fs |-> fs1, queue |-> queue1]

Ops(trace) == {trace[i].op : i \in 1 .. Len(trace)}
Count(trace, op) == Cardinality({i \in 1 .. Len(trace) : trace[i].op = op})
\* indices of the events of one kind, and the n-th of them
Positions(trace, op) == {i \in 1 .. Len(trace) : trace[i].op = op}
Nth(trace, op, n) ==
    CHOOSE i \in Positions(trace, op) :
        Cardinality({j \in Positions(trace, op) : j < i}) = n - 1

----------------------------------------------------------------------------
(* get_full_repo_name *)

\* slip: the identity is looked up before `organization` is tested
get_full_repo_name_eager(model_id, organization, token, env) ==
    LET token1 == IF token = None THEN StoredToken ELSE token
        t0 == IF token = None THEN <<EvGetToken>> ELSE <<>>
    IN IF env.who # "ok"
       THEN [trace |-> Append(t0, EvWhoami(token1, None)), ret |-> None,
             raised |-> Raise(env.who, "whoami")]
       ELSE LET username == env.name
                t1 == Append(t0, EvWhoami(token1, username))
            IN IF organization = None
               THEN [trace |-> t1, ret |-> username \o "/" \o model_id, raised |-> NoError]
               ELSE [trace |-> t1, ret |-> organization \o "/" \o model_id,
                     raised |-> NoError]

get_full_repo_name(model_id, organization, token, env) ==
    LET token1 == IF token = None THEN StoredToken ELSE token
        t0 == IF token = None THEN <<EvGetToken>> ELSE <<>>
    IN IF organization = None
       THEN IF env.who # "ok"
            THEN [trace |-> Append(t0, EvWhoami(token1, None)), ret |-> None,
                  raised |-> Raise(env.who, "whoami")]
            ELSE LET username == env.name
                 IN [trace |-> Append(t0, EvWhoami(token1, username)),
                     ret |-> username \o "/" \o model_id, raised |-> NoError]
       ELSE [trace |-> t0, ret |-> organization \o "/" \o model_id, raised |-> NoError]

----------------------------------------------------------------------------
(* init_git_repo *)

GitignorePattern == "checkpoint-*/"
\* a .gitignore the remote repository may already hold
RemoteGitignore == "*.bin\n"

\* Repository(output_dir, clone_from=...) succeeded: the directory exists;
\* onto an empty directory the clone brings the remote's files
Bound(fs0, cloned) ==
    IF fs0.dir
    THEN fs0
    ELSE [dir |-> TRUE, gitignore |-> cloned, readme |-> NoFile]

\* shutil.rmtree(output_dir)
Wiped == [dir |-> FALSE, gitignore |-> NoFile, readme |-> NoFile]

\* slip: the os.path.exists test of line 73 is missing
SeedGitignoreUnchecked(a, trace, fs0, q) ==
    LET t == Append(trace, EvExists(".gitignore", fs0.gitignore))
    IN IF a.hub_strategy # "all_checkpoints"
       THEN Result(Append(t, EvWrite(".gitignore", GitignorePattern)), RepoHandle, NoError,
                   [fs0 EXCEPT !.gitignore = GitignorePattern], q)
       ELSE Result(t, RepoHandle, NoError, fs0, q)

\* lines 72-77, run after the pull
SeedGitignore(a, trace, fs0, q) ==
    LET t == Append(trace, EvExists(".gitignore", fs0.gitignore))
    IN IF fs0.gitignore = NoFile /\ a.hub_strategy # "all_checkpoints"
       THEN Result(Append(t, EvWrite(".gitignore", GitignorePattern)), RepoHandle, NoError,
                   [fs0 EXCEPT !.gitignore = GitignorePattern], q)
       ELSE Result(t, RepoHandle, NoError, fs0, q)

\* lines 70-77: pull, seed .gitignore, return the handle (a new Repository
\* object, whose command queue is empty)
AfterBind(a, trace, fs0, q0, env) ==
    LET t == Append(trace, EvPull)
    IN IF env.pull # "ok"
       THEN Result(t, None, Raise(env.pull, "pull"), fs0, q0)
       ELSE SeedGitignore(a, t, fs0, <<>>)

\* slip: the retry passes use_auth_token=True instead of the credential
BindRepoRetryCached(a, at_init, repo_name, use_auth_token, fs0, q0, trace, env) ==
    LET e1 == IF env.bind1 = "ok" THEN NoError ELSE Raise(env.bind1, "bind1")
        t1 == Append(trace, EvBind(repo_name, use_auth_token, TRUE, a.hub_private_repo, e1))
    IN IF env.bind1 = "ok"
       THEN AfterBind(a, t1, Bound(fs0, env.cloned), q0, env)
       ELSE IF e1.cls = "EnvironmentError" /\ a.overwrite_output_dir /\ at_init
       THEN LET t2 == Append(t1, EvRmtree)
            IN IF env.rmtree # "ok"
               THEN Result(t2, None, Raise(env.rmtree, "rmtree"), fs0, q0)
               ELSE LET e2 == IF env.bind2 = "ok" THEN NoError ELSE Raise(env.bind2, "bind2")
                        t3 == Append(t2, EvBind(repo_name, PyTrue, FALSE, FALSE, e2))
                    IN IF env.bind2 = "ok"
                       THEN AfterBind(a, t3, Bound(Wiped, env.cloned), q0, env)
                       ELSE Result(t3, None, e2, Wiped, q0)
       ELSE Result(t1, None, e1, fs0, q0)

\* slip: the handler tests overwrite_output_dir only, not at_init
BindRepoWipesLate(a, at_init, repo_name, use_auth_token, fs0, q0, trace, env) ==
    LET e1 == IF env.bind1 = "ok" THEN NoError ELSE Raise(env.bind1, "bind1")
        t1 == Append(trace, EvBind(repo_name, use_auth_token, TRUE, a.hub_private_repo, e1))
    IN IF env.bind1 = "ok"
       THEN AfterBind(a, t1, Bound(fs0, env.cloned), q0, env)
       ELSE IF e1.cls = "EnvironmentError" /\ a.overwrite_output_dir
       THEN LET t2 == Append(t1, EvRmtree)
            IN IF env.rmtree # "ok"
               THEN Result(t2, None, Raise(env.rmtree, "rmtree"), fs0, q0)
               ELSE LET e2 == IF env.bind2 = "ok" THEN NoError ELSE Raise(env.bind2, "bind2")
                        t3 == Append(t2, EvBind(repo_name, use_auth_token, FALSE, FALSE, e2))
                    IN IF env.bind2 = "ok"
                       THEN AfterBind(a, t3, Bound(Wiped, env.cloned), q0, env)
                       ELSE Result(t3, None, e2, Wiped, q0)
       ELSE Result(t1, None, e1, fs0, q0)

\* slip: a failed retry re-raises the error of the first attempt
BindRepoReraisesFirst(a, at_init, repo_name, use_auth_token, fs0, q0, trace, env) ==
    LET e1 == IF env.bind1 = "ok" THEN NoError ELSE Raise(env.bind1, "bind1")
        t1 == Append(trace, EvBind(repo_name, use_auth_token, TRUE, a.hub_private_repo, e1))
    IN IF env.bind1 = "ok"
       THEN AfterBind(a, t1, Bound(fs0, env.cloned), q0, env)
       ELSE IF e1.cls = "EnvironmentError" /\ a.overwrite_output_dir /\ at_init
       THEN LET t2 == Append(t1, EvRmtree)
            IN IF env.rmtree # "ok"
               THEN Result(t2, None, Raise(env.rmtree, "rmtree"), fs0, q0)
               ELSE LET e2 == IF env.bind2 = "ok" THEN NoError ELSE Raise(env.bind2, "bind2")
                        t3 == Append(t2, EvBind(repo_name, use_auth_token, FALSE, FALSE, e2))
                    IN IF env.bind2 = "ok"
                       THEN AfterBind(a, t3, Bound(Wiped, env.cloned), q0, env)
                       ELSE Result(t3, None, e1, Wiped, q0)
       ELSE Result(t1, None, e1, fs0, q0)

\* lines 51-68
BindRepo(a, at_init, repo_name, use_auth_token, fs0, q0, trace, env) ==
    LET e1 == IF env.bind1 = "ok" THEN NoError ELSE Raise(env.bind1, "bind1")
        t1 == Append(trace, EvBind(repo_name, use_auth_token, TRUE, a.hub_private_repo, e1))
    IN IF env.bind1 = "ok"
       THEN AfterBind(a, t1, Bound(fs0, env.cloned), q0, env)
       ELSE IF e1.cls = "EnvironmentError" /\ a.overwrite_output_dir /\ at_init
       THEN LET t2 == Append(t1, EvRmtree)
            IN IF env.rmtree # "ok"
               THEN Result(t2, None, Raise(env.rmtree, "rmtree"), fs0, q0)
               ELSE LET e2 == IF env.bind2 = "ok" THEN NoError ELSE Raise(env.bind2, "bind2")
                        t3 == Append(t2, EvBind(repo_name, use_auth_token, FALSE, FALSE, e2))
                    IN IF env.bind2 = "ok"
                       THEN AfterBind(a, t3, Bound(Wiped, env.cloned), q0, env)
                       ELSE Result(t3, None, e2, Wiped, q0)
       ELSE Result(t1, None, e1, fs0, q0)

init_git_repo(a, local_rank, at_init, fs0, q0, env) ==
    IF ~IsPrimary(local_rank)
    THEN Result(<<>>, None, NoError, fs0, q0)
    ELSE LET use_auth_token == IF a.hub_token = None THEN PyTrue ELSE a.hub_token
             repo_name0 == IF a.hub_model_id = None
                           THEN PathName(a.output_dir)
                           ELSE a.hub_model_id
         IN IF ~Contains(repo_name0, "/")
            THEN LET r == get_full_repo_name(repo_name0, None, a.hub_token, env)
                 IN IF r.raised # NoError
                    THEN Result(r.trace, None, r.raised, fs0, q0)
                    ELSE BindRepo(a, at_init, r.ret, use_auth_token, fs0, q0, r.trace, env)
            ELSE BindRepo(a, at_init, repo_name0, use_auth_token, fs0, q0, <<>>, env)

----------------------------------------------------------------------------
(* create_model_card *)

AUTOGENERATED_TRAINER_COMMENT ==
    "\n<!-- This model card has been generated automatically according to the information the Trainer had access to. You\nshould probably proofread and complete it, then remove this comment. -->\n"

\* metadata = {"license": "apache-2.0", "tags": ["pytorch", "diffusers"]},
\* in insertion order; an entry is a scalar or a list of scalars
Metadata ==
    << [key |-> "license", is_list |-> FALSE, scalar |-> "apache-2.0", items |-> <<>>],
       [key |-> "tags", is_list |-> TRUE, scalar |-> "", items |-> <<"pytorch", "diffusers">>] >>

RECURSIVE YamlItems(_)
YamlItems(items) ==
    IF items = <<>> THEN "" ELSE "- " \o Head(items) \o "\n" \o YamlItems(Tail(items))

YamlEntry(e) ==
    IF e.is_list
    THEN e.key \o ":\n" \o YamlItems(e.items)
    ELSE e.key \o ": " \o e.scalar \o "\n"

RECURSIVE YamlDump(_)
\* yaml.dump(metadata, sort_keys=False): block style, keys in the given order
YamlDump(entries) ==
    IF entries = <<>> THEN "" ELSE YamlEntry(Head(entries)) \o YamlDump(Tail(entries))

\* lines 141-150
ModelCard(model_name) ==
    LET metadata == YamlDump(Metadata)
        card0 == IF Len(metadata) > 0 THEN "---\n" \o metadata \o "---\n" ELSE ""
    IN card0 \o AUTOGENERATED_TRAINER_COMMENT \o "\n# " \o model_name \o "\n\n"

\* slip: README.md is opened with mode "a" instead of "w"
create_model_card_append(local_rank, model_name, trace, fs0, q0) ==
    IF ~IsPrimary(local_rank)
    THEN Result(trace, None, NoError, fs0, q0)
    ELSE LET model_card == ModelCard(model_name)
             content == IF fs0.readme = NoFile THEN model_card ELSE fs0.readme \o model_card
         IN Result(Append(trace, EvWrite("README.md", model_card)), None, NoError,
                   [fs0 EXCEPT !.readme = content], q0)

\* slip: the rank check of line 137 is missing
create_model_card_ungated(local_rank, model_name, trace, fs0, q0) ==
    LET model_card == ModelCard(model_name)
    IN Result(Append(trace, EvWrite("README.md", model_card)), None, NoError,
              [fs0 EXCEPT !.readme = model_card], q0)

create_model_card(local_rank, model_name, trace, fs0, q0) ==
    IF ~IsPrimary(local_rank)
    THEN Result(trace, None, NoError, fs0, q0)
    ELSE LET model_card == ModelCard(model_name)
         IN Result(Append(trace, EvWrite("README.md", model_card)), None, NoError,
                   [fs0 EXCEPT !.readme = model_card], q0)

----------------------------------------------------------------------------
(* push_to_hub *)

\* a command of repo.command_queue: the background process of a
\* non-blocking push
NewCommand == [present |-> TRUE, is_done |-> FALSE, killed |-> FALSE]

\* commands still in progress that nobody killed
InFlight(q) == {i \in 1 .. Len(q) : q[i].present /\ ~q[i].is_done /\ ~q[i].killed}

\* slip: the `is_done` test of line 121 is missing
ShouldKillEvenDone(blocking, q) ==
    /\ blocking
    /\ Len(q) > 0
    /\ q[Len(q)].present

\* lines 116-123
ShouldKill(blocking, q) ==
    /\ blocking
    /\ Len(q) > 0
    /\ q[Len(q)].present
    /\ ~q[Len(q)].is_done

\* repo.command_queue[-1]._process.kill()
Kill(q) == [q EXCEPT ![Len(q)].killed = TRUE]

\* a successful repo.push_to_hub(..., blocking=blocking): a non-blocking
\* push leaves its command in the queue
Pushed(q, blocking) == IF blocking THEN q ELSE Append(q, NewCommand)

\* slip: the try/except around the model-card push is missing
PushModelCardUncaught(blocking, trace, fs0, q, git_head_commit_url, env) ==
    LET exc == IF env.push2 = "ok" THEN NoError ELSE Raise(env.push2, "push2")
        t == Append(trace, EvPush("update model card README.md", blocking,
                                  Cardinality(InFlight(q)),
                                  IF env.push2 = "ok" THEN env.url2 ELSE None, exc))
    IN IF env.push2 = "ok"
       THEN Result(t, git_head_commit_url, NoError, fs0, Pushed(q, blocking))
       ELSE Result(t, None, exc, fs0, q)

\* slip: `except Exception` instead of `except EnvironmentError`
PushModelCardCatchesAll(blocking, trace, fs0, q, git_head_commit_url, env) ==
    LET exc == IF env.push2 = "ok" THEN NoError ELSE Raise(env.push2, "push2")
        t == Append(trace, EvPush("update model card README.md", blocking,
                                  Cardinality(InFlight(q)),
                                  IF env.push2 = "ok" THEN env.url2 ELSE None, exc))
    IN IF env.push2 = "ok"
       THEN Result(t, git_head_commit_url, NoError, fs0, Pushed(q, blocking))
       ELSE Result(Append(t, EvLogError), git_head_commit_url, NoError, fs0, q)

\* lines 128-133
PushModelCard(blocking, trace, fs0, q, git_head_commit_url, env) ==
    LET exc == IF env.push2 = "ok" THEN NoError ELSE Raise(env.push2, "push2")
        t == Append(trace, EvPush("update model card README.md", blocking,
                                  Cardinality(InFlight(q)),
                                  IF env.push2 = "ok" THEN env.url2 ELSE None, exc))
    IN IF env.push2 = "ok"
       THEN Result(t, git_head_commit_url, NoError, fs0, Pushed(q, blocking))
       ELSE IF exc.cls = "EnvironmentError"
       THEN Result(Append(t, EvLogError), git_head_commit_url, NoError, fs0, q)
       ELSE Result(t, None, exc, fs0, q)

\* slip: the checkpoint push is wrapped in the try/except too
PushCheckpointCaught(local_rank, model_name, commit_message, blocking, trace, fs0, q, env) ==
    LET exc == IF env.push1 = "ok" THEN NoError ELSE Raise(env.push1, "push1")
        t == Append(trace, EvPush(commit_message, blocking, Cardinality(InFlight(q)),
                                  IF env.push1 = "ok" THEN env.url1 ELSE None, exc))
        c == create_model_card(local_rank, model_name,
                               IF env.push1 = "ok" THEN t ELSE Append(t, EvLogError), fs0,
                               IF env.push1 = "ok" THEN Pushed(q, blocking) ELSE q)
    IN PushModelCard(blocking, c.trace, c.fs, c.queue,
                     IF env.push1 = "ok" THEN env.url1 ELSE None, env)

\* slip: the model card is regenerated before the checkpoint push
PushCheckpointCardFirst(local_rank, model_name, commit_message, blocking, trace, fs0, q, env) ==
    LET c == create_model_card(local_rank, model_name, trace, fs0, q)
        exc == IF env.push1 = "ok" THEN NoError ELSE Raise(env.push1, "push1")
        t == Append(c.trace, EvPush(commit_message, blocking, Cardinality(InFlight(q)),
                                    IF env.push1 = "ok" THEN env.url1 ELSE None, exc))
    IN IF env.push1 # "ok"
       THEN Result(t, None, exc, c.fs, q)
       ELSE PushModelCard(blocking, t, c.fs, Pushed(q, blocking), env.url1, env)

\* lines 125-133: the checkpoint push, the model card, the model-card push
PushCheckpoint(local_rank, model_name, commit_message, blocking, trace, fs0, q, env) ==
    LET exc == IF env.push1 = "ok" THEN NoError ELSE Raise(env.push1, "push1")
        t == Append(trace, EvPush(commit_message, blocking, Cardinality(InFlight(q)),
                                  IF env.push1 = "ok" THEN env.url1 ELSE None, exc))
    IN IF env.push1 # "ok"
       THEN Result(t, None, exc, fs0, q)
       ELSE LET git_head_commit_url == env.url1
                c == create_model_card(local_rank, model_name, t, fs0, Pushed(q, blocking))
            IN PushModelCard(blocking, c.trace, c.fs, c.queue, git_head_commit_url, env)

push_to_hub(a, local_rank, commit_message, blocking, fs0, q0, env) ==
    LET model_name == IF a.hub_model_id = None
                      THEN PathName(a.output_dir)
                      ELSE LastSegment(a.hub_model_id)
        t0 == <<EvMakedirs, EvSave>>
        fs1 == [fs0 EXCEPT !.dir = TRUE]
    IN IF ~IsPrimary(local_rank)
       THEN Result(t0, None, NoError, fs1, q0)
       ELSE LET kill == ShouldKill(blocking, q0)
                t1 == IF kill THEN Append(t0, EvKill(Len(q0))) ELSE t0
                q1 == IF kill THEN Kill(q0) ELSE q0
            IN PushCheckpoint(local_rank, model_name, commit_message, blocking,
                              t1, fs1, q1, env)

----------------------------------------------------------------------------
(* The program: a run configuration, an output directory, the caller's   *)
(* repository handle with its command queue, and the last call made.     *)

Configurations ==
    [hub_token : Tokens, hub_model_id : ModelIds, output_dir : {OutputDir},
     overwrite_output_dir : BOOLEAN, hub_strategy : Strategies,
     hub_private_repo : BOOLEAN]

LocalGitignore == "*.pyc\n"
OldReadme == "# notes\n"
InitialDirs ==
    { Wiped,
      [dir |-> TRUE, gitignore |-> NoFile, readme |-> NoFile],
      [dir |-> TRUE, gitignore |-> LocalGitignore, readme |-> OldReadme] }

WhoamiEnvs ==
    {e \in [who : {"ok", "env"}, name : UserNames] : e.who # "ok" => e.name = "alice"}
\* the outcomes of the external calls of one init_git_repo; an outcome the
\* call never consumes is pinned to its first value
InitEnvs ==
    { e \in [who : {"ok", "env"}, name : {"alice"}, bind1 : Outcomes,
             rmtree : {"ok", "env"}, bind2 : Outcomes, pull : {"ok", "env"},
             cloned : {NoFile, RemoteGitignore}] :
        LET bound == e.bind1 = "ok" \/ (e.bind1 = "env" /\ e.rmtree = "ok" /\ e.bind2 = "ok")
        IN /\ e.who # "ok" => e.bind1 = "ok"
           /\ e.bind1 # "env" => e.rmtree = "ok"
           /\ (e.bind1 # "env" \/ e.rmtree # "ok") => e.bind2 = "ok"
           /\ ~bound => e.pull = "ok" /\ e.cloned = NoFile }
\* every external call of init_git_repo succeeds
QuietInitEnv ==
    [who |-> "ok", name |-> "alice", bind1 |-> "ok", rmtree |-> "ok", bind2 |-> "ok",
     pull |-> "ok", cloned |-> NoFile]
CardUrl == "hub/commit/card"
PushEnvs ==
    { e \in [push1 : Outcomes, push2 : Outcomes, url1 : CommitUrls, url2 : {CardUrl}] :
        e.push1 # "ok" => e.push2 = "ok" }

\* both pushes succeed
QuietPushEnv == [push1 |-> "ok", push2 |-> "ok", url1 |-> "hub/commit/1", url2 |-> CardUrl]

Call(fn, local_rank, flag, name, r) ==
    [fn |-> fn, local_rank |-> local_rank, flag |-> flag, name |-> name,
     trace |-> r.trace, ret |-> r.ret, raised |-> r.raised]

NoCall == Call("none", -1, FALSE, None, Result(<<>>, None, NoError, Wiped, <<>>))

DefaultConfiguration ==
    [hub_token |-> None, hub_model_id |-> None, output_dir |-> OutputDir,
     overwrite_output_dir |-> TRUE, hub_strategy |-> "every_save",
     hub_private_repo |-> FALSE]

\* a run of several participants calling the three entry points
Init ==
    /\ args = DefaultConfiguration
    /\ fs \in {Wiped, [dir |-> TRUE, gitignore |-> LocalGitignore, readme |-> OldReadme]}
    /\ hasRepo = FALSE
    /\ queue = <<>>
    /\ last = NoCall

\* any configuration, any output directory, before a repository is bound
InitRepo ==
    /\ args \in Configurations
    /\ fs \in InitialDirs
    /\ hasRepo = FALSE
    /\ queue = <<>>
    /\ last = NoCall

\* nothing but the resolver is used
InitName ==
    /\ args = DefaultConfiguration
    /\ fs = Wiped
    /\ hasRepo = FALSE
    /\ queue = <<>>
    /\ last = NoCall

\* after init_git_repo returned the handle: the directory exists and the
\* handle's command queue is empty
InitPush ==
    /\ args \in {[DefaultConfiguration EXCEPT !.hub_model_id = m] : m \in ModelIds}
    /\ fs \in {[dir |-> TRUE, gitignore |-> GitignorePattern, readme |-> r] :
                 r \in {NoFile, OldReadme}}
    /\ hasRepo = TRUE
    /\ queue = <<>>
    /\ last = NoCall

\* get_full_repo_name(model_id, organization, token)
GetFullRepoName ==
    \E model_id \in ShortNames, organization \in Organizations,
       token \in Tokens \cup {"hf_other"}, env \in WhoamiEnvs :
        LET r == get_full_repo_name(model_id, organization, token, env)
        IN /\ last' = [fn |-> "get_full_repo_name", local_rank |-> -1, flag |-> FALSE,
                       name |-> <<model_id, organization, token>>,
                       trace |-> r.trace, ret |-> r.ret, raised |-> r.raised]
           /\ UNCHANGED <<args, fs, hasRepo, queue>>

\* init_git_repo(args, at_init) on the participant local_rank; the caller
\* keeps the handle it returns
InitGitRepo ==
    \E local_rank \in Ranks, at_init \in BOOLEAN, env \in InitEnvs :
        /\ local_rank \notin {-1, 0} => env = QuietInitEnv
        /\ LET r == init_git_repo(args, local_rank, at_init, fs, queue, env)
           IN /\ last' = Call("init_git_repo", local_rank, at_init, None, r)
              /\ fs' = r.fs
              /\ queue' = r.queue
              /\ hasRepo' = (hasRepo \/ r.ret = RepoHandle)
              /\ UNCHANGED args

\* push_to_hub(args, pipeline, repo, commit_message, blocking)
PushToHub ==
    \E local_rank \in Ranks, commit_message \in CommitMessages, blocking \in BOOLEAN,
       env \in PushEnvs :
        /\ local_rank \in {-1, 0} => hasRepo
        /\ local_rank \notin {-1, 0} => env = QuietPushEnv
        /\ ~blocking => Len(queue) + 2 <= MaxQueue
        /\ LET r == push_to_hub(args, local_rank, commit_message, blocking, fs, queue, env)
           IN /\ last' = Call("push_to_hub", local_rank, blocking, commit_message, r)
              /\ fs' = r.fs
              /\ queue' = r.queue
        /\ UNCHANGED <<args, hasRepo>>

\* create_model_card(args, model_name)
CreateModelCard ==
    \E local_rank \in Ranks, model_name \in CardNames :
        LET r == create_model_card(local_rank, model_name, <<>>, fs, queue)
        IN /\ last' = Call("create_model_card", local_rank, FALSE, model_name, r)
           /\ fs' = r.fs
           /\ UNCHANGED <<args, hasRepo, queue>>

\* the process of a queued command exits (it finished, or it was killed)
CommandExits ==
    \E i \in 1 .. Len(queue) :
        /\ ~queue[i].is_done
        /\ queue' = [queue EXCEPT ![i].is_done = TRUE]
        /\ UNCHANGED <<args, fs, hasRepo, last>>

Next ==
    \/ InitGitRepo
    \/ PushToHub
    \/ CreateModelCard
    \/ CommandExits

Spec == Init /\ [][Next]_vars

\* get_full_repo_name alone
NextName == GetFullRepoName
SpecName == InitName /\ [][NextName]_vars

\* init_git_repo, called any number of times
NextRepo == InitGitRepo
SpecRepo == InitRepo /\ [][NextRepo]_vars

\* pushes and model cards on one repository handle
NextPush ==
    \/ PushToHub
    \/ CreateModelCard
    \/ CommandExits
SpecPush == InitPush /\ [][NextPush]_vars

----------------------------------------------------------------------------
(* Properties *)

IsCall(fn) == last.fn = fn
OnPrimary == last.local_rank \in {-1, 0}
Event(op, n) == last.trace[Nth(last.trace, op, n)]
Has(op) == op \in Ops(last.trace)

\* C1: on a participant whose local_rank is neither -1 nor 0, init_git_repo
\* and create_model_card return None with no identity lookup, bind,
\* directory removal, pull or file write, and push_to_hub returns None with
\* no kill, no repository push and no README.md write.
C1_NonPrimaryDoesNothing ==
    ~OnPrimary =>
        /\ last.ret = None
        /\ last.raised = NoError
        /\ (IsCall("init_git_repo") \/ IsCall("create_model_card")) =>
               Ops(last.trace) \cap {"get_token", "whoami", "bind", "rmtree", "pull", "write"} = {}
        /\ IsCall("push_to_hub") =>
               Ops(last.trace) \cap {"kill", "push", "write"} = {}

\* a blocking push_to_hub on a non-primary participant while the handle's
\* last queued command is still running
C1_Witness ==
    /\ IsCall("push_to_hub")
    /\ ~OnPrimary
    /\ last.flag
    /\ ShouldKill(TRUE, queue)
    /\ last.ret = None

Mutations == {"bind", "rmtree", "pull", "write", "makedirs", "save_pretrained", "kill", "push"}

\* C2 as stated: only a participant with local_rank 0 or -1 ever performs a
\* git or filesystem mutation; a non-primary participant returns from each
\* entry point before any directory creation or file write.
C2_Original == ~OnPrimary => Ops(last.trace) \cap Mutations = {}

\* C2 amended: a call on a non-primary participant never binds, pulls,
\* pushes, kills, removes the directory or writes .gitignore or README.md,
\* and leaves those files, the handle and its queue as they were;
\* init_git_repo and create_model_card do nothing at all there, while
\* push_to_hub first creates the output directory and saves the pipeline.
C2_OnlyPrimaryMutatesRepository ==
    [][ (last' # last /\ last'.local_rank \notin {-1, 0}) =>
            /\ fs'.gitignore = fs.gitignore
            /\ fs'.readme = fs.readme
            /\ queue' = queue
            /\ hasRepo' = hasRepo
            /\ last'.fn # "push_to_hub" => last'.trace = <<>> /\ fs' = fs
            /\ last'.fn = "push_to_hub" => last'.trace = <<EvMakedirs, EvSave>> /\ fs'.dir
      ]_vars

\* push_to_hub on a non-primary participant created the output directory
C2_Witness ==
    /\ IsCall("push_to_hub")
    /\ ~OnPrimary
    /\ last.trace = <<EvMakedirs, EvSave>>
    /\ fs.dir
    /\ fs.readme = NoFile

\* C3: when the checkpoint push of push_to_hub raises on the primary
\* participant, no model-card push is issued, README.md is not written, and
\* the error that reaches the caller is the one the checkpoint push raised.
C3_CheckpointFailurePropagates ==
    (IsCall("push_to_hub") /\ OnPrimary /\ Event("push", 1).raised # NoError) =>
        /\ Count(last.trace, "push") = 1
        /\ ~Has("write")
        /\ last.raised = Event("push", 1).raised
        /\ last.ret = None

C3_Witness ==
    /\ IsCall("push_to_hub")
    /\ OnPrimary
    /\ Event("push", 1).raised = EnvError("push1")
    /\ last.raised = EnvError("push1")

\* C4: when the checkpoint push succeeds and the model-card push raises an
\* EnvironmentError, push_to_hub does not raise and returns the value the
\* checkpoint push returned.
C4_ModelCardFailureSwallowed ==
    (/\ IsCall("push_to_hub")
     /\ OnPrimary
     /\ Count(last.trace, "push") = 2
     /\ Event("push", 2).raised.cls = "EnvironmentError") =>
        /\ Event("push", 1).raised = NoError
        /\ last.raised = NoError
        /\ last.ret = Event("push", 1).ret
        /\ last.ret # None

C4_Witness ==
    /\ IsCall("push_to_hub")
    /\ OnPrimary
    /\ Count(last.trace, "push") = 2
    /\ Event("push", 2).raised = EnvError("push2")
    /\ last.ret \in CommitUrls

\* the credential init_git_repo computes on line 43
Credential == IF args.hub_token = None THEN PyTrue ELSE args.hub_token

Retried == IsCall("init_git_repo") /\ Count(last.trace, "bind") = 2

\* C5 as stated: after a binding conflict with at_init and
\* overwrite_output_dir true, the second bind attempt is made with
\* use_auth_token = True whether or not a hub_token was supplied.
C5_Original == Retried => Event("bind", 2).use_auth_token = PyTrue

\* C5 amended: the second bind attempt is made with the credential of the
\* first one: the explicit hub_token when one was supplied, True otherwise.
C5_RetryKeepsCredential ==
    Retried =>
        /\ Event("bind", 2).use_auth_token = Credential
        /\ Event("bind", 2).use_auth_token = Event("bind", 1).use_auth_token
        /\ Event("bind", 2).clone_from = Event("bind", 1).clone_from

C5_Witness ==
    /\ Retried
    /\ args.hub_token # None
    /\ Event("bind", 2).use_auth_token = args.hub_token

\* the first bind raised an EnvironmentError and the configuration lets
\* init_git_repo wipe the directory
MayWipe ==
    /\ Event("bind", 1).raised.cls = "EnvironmentError"
    /\ last.flag
    /\ args.overwrite_output_dir

\* C6: init_git_repo removes the output directory and binds a second time
\* only after an EnvironmentError of the first bind with at_init and
\* overwrite_output_dir both true, the removal coming before the second
\* bind and a call binding at most twice; otherwise a failed bind reaches
\* the caller with no removal, no second bind, no pull and no write.
C6_WipeOnlyWhenPermitted ==
    (IsCall("init_git_repo") /\ Has("bind")) =>
        /\ Count(last.trace, "bind") <= 2
        /\ Count(last.trace, "rmtree") <= 1
        /\ (Has("rmtree") \/ Count(last.trace, "bind") = 2) => MayWipe
        /\ Count(last.trace, "bind") = 2 =>
               /\ Has("rmtree")
               /\ Nth(last.trace, "bind", 1) < Nth(last.trace, "rmtree", 1)
               /\ Nth(last.trace, "rmtree", 1) < Nth(last.trace, "bind", 2)
        /\ (Event("bind", 1).raised # NoError /\ ~MayWipe) =>
               /\ Ops(last.trace) \cap {"rmtree", "pull", "exists", "write"} = {}
               /\ Count(last.trace, "bind") = 1
               /\ last.raised = Event("bind", 1).raised
               /\ last.ret = None

\* the directory was wiped and bound again
C6_Witness ==
    /\ Retried
    /\ MayWipe
    /\ Has("rmtree")
    /\ last.ret = RepoHandle

\* C7: at the moment a blocking push_to_hub issues its checkpoint push, no
\* previously queued command is still running and un-killed.
C7_NoStalePushInFlight ==
    (IsCall("push_to_hub") /\ OnPrimary /\ last.flag) => Event("push", 1).inflight = 0

\* C8 as stated: when init_git_repo returns a handle, a directory that held
\* no .gitignore before the call holds one with exactly `checkpoint-*/`
\* unless hub_strategy is "all_checkpoints", in which case none is created,
\* and a .gitignore that existed before the call is unchanged.
C8_Original ==
    [][ (last' # last /\ last'.fn = "init_git_repo" /\ last'.ret = RepoHandle) =>
            /\ (fs.gitignore = NoFile /\ args.hub_strategy # "all_checkpoints") =>
                   fs'.gitignore = GitignorePattern
            /\ (fs.gitignore = NoFile /\ args.hub_strategy = "all_checkpoints") =>
                   fs'.gitignore = NoFile
            /\ fs.gitignore # NoFile => fs'.gitignore = fs.gitignore
      ]_vars

\* C8 amended: the same, with "existed" read at the test of line 73, that
\* is after the bind (and its wipe and retry) and the pull: a .gitignore
\* absent then is written as exactly `checkpoint-*/`, without a newline,
\* unless hub_strategy is "all_checkpoints"; one present then is unchanged.
C8_GitignoreSeeded ==
    (IsCall("init_git_repo") /\ last.ret = RepoHandle) =>
        LET seen == Event("exists", 1).content
        IN /\ Count(last.trace, "exists") = 1
           /\ (seen = NoFile /\ args.hub_strategy # "all_checkpoints") =>
                  /\ fs.gitignore = "checkpoint-*/"
                  /\ Len(fs.gitignore) = 13
                  /\ last.trace[Len(last.trace)] = EvWrite(".gitignore", "checkpoint-*/")
           /\ (seen = NoFile /\ args.hub_strategy = "all_checkpoints") =>
                  fs.gitignore = NoFile /\ ~Has("write")
           /\ seen # NoFile => fs.gitignore = seen /\ ~Has("write")

\* a .gitignore found by the test of line 73 was left alone
C8_Witness ==
    /\ IsCall("init_git_repo")
    /\ last.ret = RepoHandle
    /\ Event("exists", 1).content = LocalGitignore
    /\ fs.gitignore = LocalGitignore
    /\ args.hub_strategy # "all_checkpoints"

\* C9: get_full_repo_name returns "<organization>/<model_id>" without
\* calling whoami when organization is given; otherwise it calls whoami
\* once, with the given token or with the stored token when none is given,
\* and returns "<name>/<model_id>" for the name whoami answered.
C9_FullRepoName ==
    IsCall("get_full_repo_name") =>
        LET model_id == last.name[1]
            organization == last.name[2]
            token == last.name[3]
        IN /\ organization # None =>
                  /\ ~Has("whoami")
                  /\ last.raised = NoError
                  /\ last.ret = organization \o "/" \o model_id
           /\ organization = None =>
                  /\ Count(last.trace, "whoami") = 1
                  /\ Event("whoami", 1).token = (IF token = None THEN StoredToken ELSE token)
                  /\ last.raised = NoError =>
                         last.ret = Event("whoami", 1).answer \o "/" \o model_id
           /\ Has("get_token") <=> token = None

C9_Witness ==
    /\ IsCall("get_full_repo_name")
    /\ last.name = <<"foo", None, None>>
    /\ last.ret = "alice/foo"
    /\ Event("whoami", 1).token = StoredToken

\* the README.md of a model called name, written out
ExpectedCard(name) ==
    "---\nlicense: apache-2.0\ntags:\n- pytorch\n- diffusers\n---\n"
    \o "\n<!-- This model card has been generated automatically according to the information the Trainer had access to. You\nshould probably proofread and complete it, then remove this comment. -->\n"
    \o "\n# " \o name \o "\n\n"

\* C10: on the primary participant create_model_card replaces README.md,
\* whatever it held, by a text that depends on model_name only, starts with
\* `---\n`, has `license: apache-2.0` before the tags key, holds the
\* autogenerated disclaimer and ends with `# <model_name>\n\n`.
C10_ModelCardContent ==
    (IsCall("create_model_card") /\ OnPrimary) =>
        /\ last.trace = <<EvWrite("README.md", fs.readme)>>
        /\ fs.readme = ExpectedCard(last.name)
        /\ StartsWith(fs.readme, "---\n")
        /\ IndexOf(fs.readme, "license: apache-2.0", 1) > 0
        /\ IndexOf(fs.readme, "license: apache-2.0", 1) < IndexOf(fs.readme, "tags:", 1)
        /\ Contains(fs.readme, AUTOGENERATED_TRAINER_COMMENT)
        /\ EndsWith(fs.readme, "# " \o last.name \o "\n\n")

C10_Witness ==
    /\ IsCall("create_model_card")
    /\ OnPrimary
    /\ last.name = "ddpm"
    /\ fs.readme = ExpectedCard("ddpm")

\* a step in which push_to_hub ran: the last call is a push_to_hub and no
\* queued command changed its is_done (a step of CommandExits changes one)
PushStep ==
    /\ last'.fn = "push_to_hub"
    /\ Len(queue') >= Len(queue)
    /\ \A i \in 1 .. Len(queue) : queue'[i].is_done = queue[i].is_done

WithoutKill == SelectSeq(last.trace, LAMBDA e : e.op # "kill")

\* model_name as lines 102-105 compute it from the configurations of the model
ConfiguredModelName == IF args.hub_model_id = None THEN "ddpm" ELSE "foo"

\* C12: a push_to_hub on the primary participant in which nothing raises
\* saves the pipeline to the output directory, pushes the checkpoint with
\* the caller's commit message, rewrites README.md and pushes it with the
\* message "update model card README.md", in this order; it issues exactly
\* these two pushes, both with the caller's blocking flag, and README.md is
\* written only after the checkpoint push returned.
C12_PushSequence ==
    (/\ IsCall("push_to_hub")
     /\ OnPrimary
     /\ last.raised = NoError
     /\ ~Has("log_error")) =>
        LET t == WithoutKill
        IN /\ Len(t) = 5
           /\ t[1] = EvMakedirs
           /\ t[2] = EvSave
           /\ t[3].op = "push"
           /\ t[3].msg = last.name
           /\ t[3].blocking = last.flag
           /\ t[3].raised = NoError
           /\ last.ret = t[3].ret
           /\ t[4] = EvWrite("README.md", ExpectedCard(ConfiguredModelName))
           /\ t[5].op = "push"
           /\ t[5].msg = "update model card README.md"
           /\ t[5].blocking = last.flag
           /\ t[3].auto_lfs_prune /\ t[5].auto_lfs_prune
           /\ Has("kill") => Nth(last.trace, "kill", 1) = 3
           /\ fs.dir

\* a non-blocking push_to_hub with a message of the caller's went through
C12_Witness ==
    /\ IsCall("push_to_hub")
    /\ OnPrimary
    /\ last.raised = NoError
    /\ ~Has("log_error")
    /\ ~last.flag
    /\ last.name = "step 10"
    /\ Event("push", 1).msg = "step 10"
    /\ Event("push", 2).msg = "update model card README.md"
    /\ Len(queue) = 2

BindEvents == {i \in 1 .. Len(last.trace) : last.trace[i].op = "bind"}

\* C13: every bind attempt of init_git_repo, the retry after the wipe
\* included, is made with the configured visibility hub_private_repo.
C13_EveryBindUsesConfiguredVisibility ==
    IsCall("init_git_repo") =>
        \A i \in BindEvents : last.trace[i].private = args.hub_private_repo

\* both bind attempts of the call raised
RetryFailed == Retried /\ Event("bind", 2).raised # NoError

\* C14 as stated: when the first bind fails and the retry after the wipe
\* fails too, the caller gets the error of the first bind attempt, and no
\* pull, no .gitignore write and no handle follow.
C14_Original ==
    RetryFailed =>
        /\ last.raised = Event("bind", 1).raised
        /\ Ops(last.trace) \cap {"pull", "exists", "write"} = {}
        /\ last.ret = None

\* C14 amended: the caller gets the error the second bind attempt raised
\* (the first one is not re-raised), and no pull, no .gitignore write and no
\* handle follow.
C14_RetryFailurePropagates ==
    RetryFailed =>
        /\ last.raised = Event("bind", 2).raised
        /\ last.raised # Event("bind", 1).raised
        /\ Ops(last.trace) \cap {"pull", "exists", "write"} = {}
        /\ last.ret = None
        /\ last.trace[Len(last.trace)].op = "bind"

\* the retry raised an error of another class than the first attempt
C14_Witness ==
    /\ RetryFailed
    /\ Event("bind", 1).raised = EnvError("bind1")
    /\ Event("bind", 2).raised = OtherError("bind2")
    /\ last.raised = OtherError("bind2")

Recoverable == {"none", "EnvironmentError"}

\* C15: an error of another class than EnvironmentError is never recovered:
\* raised by the model-card push it reaches the caller of push_to_hub, which
\* so does not get the checkpoint push's result; raised by the first bind it
\* reaches the caller of init_git_repo with no removal of the output
\* directory and no second bind, also when at_init and overwrite_output_dir
\* are both true.
C15_OnlyEnvironmentErrorsRecovered ==
    /\ (/\ IsCall("push_to_hub")
        /\ Count(last.trace, "push") = 2
        /\ Event("push", 2).raised.cls \notin Recoverable) =>
           /\ last.raised = Event("push", 2).raised
           /\ last.ret = None
           /\ Event("push", 1).ret # None
           /\ ~Has("log_error")
    /\ (/\ IsCall("init_git_repo")
        /\ Has("bind")
        /\ Event("bind", 1).raised.cls \notin Recoverable) =>
           /\ ~Has("rmtree")
           /\ Count(last.trace, "bind") = 1
           /\ last.raised = Event("bind", 1).raised
           /\ last.ret = None

\* the first bind raised a ValueError at init time with overwriting allowed
C15_Witness ==
    /\ IsCall("init_git_repo")
    /\ last.flag
    /\ args.overwrite_output_dir
    /\ Has("bind")
    /\ Event("bind", 1).raised = OtherError("bind1")
    /\ last.raised = OtherError("bind1")

====
